---- MODULE Spec2Model ----
(***************************************************************************)
(* examples/tracing/main.py of envoyproxy/ai-gateway: a command-line       *)
(* script that initializes telemetry, resolves its configuration, and runs *)
(* one agent turn, optionally with the tools of an MCP server reached      *)
(* through a scoped (async with) connection.                               *)
(*                                                                         *)
(* The script is one sequential task.  pc is its position; every awaited   *)
(* library call is split into the step that starts it and the step in      *)
(* which it completes, returns a value, raises, or is cancelled.  The      *)
(* libraries (argparse, agents, agents.mcp, auto_instrumentation) are      *)
(* black boxes: a call's outcome is a nondeterministic choice.  The        *)
(* release of the connection (__aexit__) is taken to complete: it is the   *)
(* library's scoped-release guarantee.                                     *)
(***************************************************************************)
EXTENDS Integers, Sequences, FiniteSets, TLC

\* ------------------------------------------------------------------ bounds
MaxTools == 2
MaxToolCalls == 2

\* ------------------------------------------------------------ input domains
None == "<None>"                 \* Python's None
NotGiven == "<not given>"        \* a flag absent from the command line

Timeout == 300

ModelFlags == {NotGiven, "", "flag-model"}
ModelEnvs == {None, "env-model"}
UrlFlags == {NotGiven, "", "http://flag/mcp"}
UrlEnvs == {None, "", "http://env/mcp"}
\* the positional argument: omitted (sys.stdin), a file that opens, a path
\* that argparse.FileType('r') cannot open
PromptArgs == {"stdin", "file", "missing"}
Prompts == {"Hello", ""}
Outputs == {"final answer", ""}
Descriptors == {"d1", "d2"}
ToolLists == UNION {[1..n -> Descriptors] : n \in 0..MaxTools}
Raised == {"Exception", "CancelledError"}

VARIABLES
    pc,          \* position of the script
    argv,        \* the command line
    env,         \* the process environment
    args,        \* <<>> or <<the namespace parse_args returned>>
    prompt,      \* None or the text read from the prompt stream
    stdout,      \* the lines written to standard output
    log,         \* the library calls made so far, in order
    server,      \* <<>> or <<the MCPServerStreamableHttp object>>
    conn,        \* "none", "open", "closed": the tool-server connection
    listed,      \* the descriptors list_tools returned
    tools,       \* the tool list handed to run_agent
    agent,       \* <<>> or <<the Agent constructed by run_agent>>
    result,      \* None or result.final_output
    inflight,    \* the awaited operations not yet completed
    toolCalls,   \* calls the agent run made through bound tools
    exc,         \* "none" or the exception propagating
    exitStatus   \* -1 while running, then the process exit status

vars == <<pc, argv, env, args, prompt, stdout, log, server, conn, listed,
          tools, agent, result, inflight, toolCalls, exc, exitStatus>>

\* ------------------------------------------------------------------ helpers
Ev(op, ph) == [op |-> op, ph |-> ph]
Log(op, ph) == Append(log, Ev(op, ph))

\* f"{v}": None renders as the text None
Format(v) == IF v = None THEN "None" ELSE v

\* (mutant) `if mcp_url is None`: an empty string counts as a URL
Falsy_IsNone(v) == v = None

\* `not mcp_url`
Falsy(v) == v = None \/ v = ""

\* (mutant) the environment variable wins over the flag
Resolve_EnvFirst(flag, envValue) ==
    IF envValue # None THEN envValue
    ELSE IF flag # NotGiven THEN flag ELSE None

\* add_argument(..., default=os.getenv(NAME)) followed by parse_args()
Resolve(flag, envValue) == IF flag # NotGiven THEN flag ELSE envValue

\* (mutant) the model line is printed before the prompt line
ConfigLines_ModelFirst(p, m, u) ==
    << <<"Using model: ", IF m = None THEN "None" ELSE m>>,
       <<"Prompt: ", IF p = None THEN "None" ELSE p>>,
       <<"Using MCP URL: ", IF u = None THEN "None" ELSE u>> >>

\* the three print calls of lines 81-83
ConfigLines(p, m, u) ==
    << <<"Prompt: ", Format(p)>>,
       <<"Using model: ", Format(m)>>,
       <<"Using MCP URL: ", Format(u)>> >>

\* MCPUtil.to_function_tool(tool, server, convert_schemas_to_strict)
to_function_tool(tool, srv, strict) ==
    [tool |-> tool, server |-> srv, strict |-> strict]

\* (mutant) the comprehension skips the first descriptor
AdaptAll_SkipFirst(ts, srv) ==
    [i \in 1..(Len(ts) - 1) |-> to_function_tool(ts[i + 1], srv, FALSE)]

\* [util.to_function_tool(tool, server, False) for tool in tools]
AdaptAll(ts, srv) ==
    [i \in 1..Len(ts) |-> to_function_tool(ts[i], srv, FALSE)]

\* (mutant) no scoped release: an exception leaves main at once
OnRaise_NoRelease == "exit"

\* (mutant) a failure is swallowed and the agent runs all the same
OnRaise_Swallow == IF pc = "Runner_wait" THEN "exit" ELSE "run_agent"

\* (mutant) a failed awaited step is attempted again
OnRaise_Retry ==
    CASE pc = "connect_wait" -> "connect"
      [] pc = "list_tools_wait" -> "list_tools"
      [] pc = "Runner_wait" -> "run_agent"
      [] OTHER -> "exit"

\* where control goes when a statement of main raises: inside the
\* `async with` body the scope's __aexit__ runs first
OnRaise == IF conn = "open" THEN "aexit" ELSE "exit"

\* where control goes when run_agent returns: line 64 returns from main,
\* line 70 is the last statement of the `async with` body
OnReturn == IF conn = "open" THEN "aexit" ELSE "exit"

\* (mutant) every exception is swallowed at top level
ExitStatus_Swallow(e) == 0

\* the interpreter's exit status: SystemExit carries argparse's code, an
\* uncaught exception gives 1, an interrupt gives 130
ExitStatus(e) ==
    CASE e = "none" -> 0
      [] e = "SystemExit0" -> 0
      [] e = "SystemExit2" -> 2
      [] e = "Exception" -> 1
      [] e = "CancelledError" -> 130

\* --------------------------------------------------------------------- Init
Init ==
    /\ pc = "initialize"
    /\ argv \in [help : BOOLEAN, prompt : PromptArgs,
                 model : ModelFlags, mcp_url : UrlFlags]
    /\ env \in [CHAT_MODEL : ModelEnvs, MCP_URL : UrlEnvs]
    /\ args = <<>>
    /\ prompt = None
    /\ stdout = <<>>
    /\ log = <<>>
    /\ server = <<>>
    /\ conn = "none"
    /\ listed = <<>>
    /\ tools = <<>>
    /\ agent = <<>>
    /\ result = None
    /\ inflight = {}
    /\ toolCalls = 0
    /\ exc = "none"
    /\ exitStatus = -1

\* ------------------------------------------------------------------ actions
\* (mutant) line 33 is missing
Initialize_Skipped ==
    /\ pc = "initialize"
    /\ pc' = "parse_args"
    /\ UNCHANGED <<argv, env, args, prompt, stdout, log, server, conn, listed,
                   tools, agent, result, inflight, toolCalls, exc, exitStatus>>

\* line 33
Initialize ==
    /\ pc = "initialize"
    /\ log' = Log("initialize", "call")
    /\ pc' = "parse_args"
    /\ UNCHANGED <<argv, env, args, prompt, stdout, server, conn, listed,
                   tools, agent, result, inflight, toolCalls, exc, exitStatus>>

\* lines 74-78: -h prints the usage and exits 0; a prompt path that cannot be
\* opened is an argument error, exit 2
ParseArgs ==
    /\ pc = "parse_args"
    /\ log' = Log("parse_args", "call")
    /\ \/ /\ argv.help
          /\ stdout' = Append(stdout, <<"usage: ", "Example Agent with Tools">>)
          /\ exc' = "SystemExit0"
          /\ pc' = "exit"
          /\ UNCHANGED args
       \/ /\ argv.prompt = "missing"
          /\ exc' = "SystemExit2"
          /\ pc' = "exit"
          /\ UNCHANGED <<args, stdout>>
       \/ /\ ~argv.help
          /\ argv.prompt # "missing"
          /\ args' = << [prompt |-> argv.prompt,
                         model |-> Resolve(argv.model, env.CHAT_MODEL),
                         mcp_url |-> Resolve(argv.mcp_url, env.MCP_URL)] >>
          /\ pc' = "read"
          /\ UNCHANGED <<stdout, exc>>
    /\ UNCHANGED <<argv, env, prompt, server, conn, listed, tools, agent,
                   result, inflight, toolCalls, exitStatus>>

\* line 79
ReadPrompt ==
    /\ pc = "read"
    /\ \/ \E p \in Prompts :
            /\ prompt' = p
            /\ log' = Log("read", "ok")
            /\ pc' = "print_config"
            /\ UNCHANGED exc
       \/ /\ log' = Log("read", "raise")
          /\ exc' = "Exception"
          /\ pc' = "exit"
          /\ UNCHANGED prompt
    /\ UNCHANGED <<argv, env, args, stdout, server, conn, listed, tools,
                   agent, result, inflight, toolCalls, exitStatus>>

\* lines 81-83
PrintConfig ==
    /\ pc = "print_config"
    /\ stdout' = stdout \o ConfigLines(prompt, args[1].model, args[1].mcp_url)
    /\ pc' = "main"
    /\ UNCHANGED <<argv, env, args, prompt, log, server, conn, listed, tools,
                   agent, result, inflight, toolCalls, exc, exitStatus>>

\* lines 85, 62-63, 66: asyncio.run(main(...)) and main's branch
Main ==
    /\ pc = "main"
    /\ IF Falsy(args[1].mcp_url)
       THEN /\ tools' = <<>>
            /\ pc' = "run_agent"
            /\ UNCHANGED server
       ELSE /\ server' = << [url |-> args[1].mcp_url, timeout |-> Timeout,
                             cache_tools_list |-> TRUE] >>
            /\ pc' = "connect"
            /\ UNCHANGED tools
    /\ UNCHANGED <<argv, env, args, prompt, stdout, log, conn, listed, agent,
                   result, inflight, toolCalls, exc, exitStatus>>

\* line 66: `async with` awaits server.__aenter__(), which connects
ConnectStart ==
    /\ pc = "connect"
    /\ inflight' = inflight \cup {"connect"}
    /\ log' = Log("connect", "call")
    /\ pc' = "connect_wait"
    /\ UNCHANGED <<argv, env, args, prompt, stdout, server, conn, listed,
                   tools, agent, result, toolCalls, exc, exitStatus>>

\* line 66: the connect completes; when it raises, the scope was never
\* entered and its __aexit__ does not run
ConnectDone ==
    /\ pc = "connect_wait"
    /\ inflight' = inflight \ {"connect"}
    /\ \/ /\ conn' = "open"
          /\ log' = Log("connect", "ok")
          /\ pc' = "list_tools"
          /\ UNCHANGED exc
       \/ \E e \in Raised :
            /\ exc' = e
            /\ log' = Log("connect", "raise")
            /\ pc' = OnRaise
            /\ UNCHANGED conn
    /\ UNCHANGED <<argv, env, args, prompt, stdout, server, listed, tools,
                   agent, result, toolCalls, exitStatus>>

\* line 67: await server.list_tools()
ListToolsStart ==
    /\ pc = "list_tools"
    /\ inflight' = inflight \cup {"list_tools"}
    /\ log' = Log("list_tools", "call")
    /\ pc' = "list_tools_wait"
    /\ UNCHANGED <<argv, env, args, prompt, stdout, server, conn, listed,
                   tools, agent, result, toolCalls, exc, exitStatus>>

\* line 67: the server answers with a list of descriptors, or the request
\* fails or is cancelled
ListToolsDone ==
    /\ pc = "list_tools_wait"
    /\ inflight' = inflight \ {"list_tools"}
    /\ \/ \E ts \in ToolLists :
            /\ listed' = ts
            /\ log' = Log("list_tools", "ok")
            /\ pc' = "adapt"
            /\ UNCHANGED exc
       \/ \E e \in Raised :
            /\ exc' = e
            /\ log' = Log("list_tools", "raise")
            /\ pc' = OnRaise
            /\ UNCHANGED listed
    /\ UNCHANGED <<argv, env, args, prompt, stdout, server, conn, tools,
                   agent, result, toolCalls, exitStatus>>

\* (mutant) line 70 is outside the `async with` body: the scope is left
\* before run_agent is called
Adapt_ScopeEndsEarly ==
    /\ pc = "adapt"
    /\ tools' = [i \in 1..Len(listed) |->
                    [tool |-> listed[i], server |-> server[1], strict |-> FALSE]]
    /\ conn' = "closed"
    /\ log' = log \o <<Ev("cleanup", "call"), Ev("cleanup", "ok")>>
    /\ pc' = "run_agent"
    /\ UNCHANGED <<argv, env, args, prompt, stdout, server, listed, agent,
                   result, inflight, toolCalls, exc, exitStatus>>

\* lines 68-69: the list comprehension; to_function_tool may raise
Adapt ==
    /\ pc = "adapt"
    /\ \/ /\ tools' = AdaptAll(listed, server[1])
          /\ pc' = "run_agent"
          /\ UNCHANGED <<exc, log>>
       \/ /\ listed # <<>>
          /\ exc' = "Exception"
          /\ log' = Log("to_function_tool", "raise")
          /\ pc' = OnRaise
          /\ UNCHANGED tools
    /\ UNCHANGED <<argv, env, args, prompt, stdout, server, conn, listed,
                   agent, result, inflight, toolCalls, exitStatus>>

\* lines 51-53 (called from line 63 or line 70): the Agent is constructed
\* and Runner.run is awaited
RunAgent ==
    /\ pc = "run_agent"
    /\ agent' = << [name |-> "Assistant", model |-> args[1].model,
                    tools |-> tools, input |-> prompt,
                    workflow_name |-> "envoy-ai-gateway"] >>
    /\ inflight' = inflight \cup {"Runner.run"}
    /\ log' = Log("Runner.run", "call")
    /\ pc' = "Runner_wait"
    /\ UNCHANGED <<argv, env, args, prompt, stdout, server, conn, listed,
                   tools, result, toolCalls, exc, exitStatus>>

\* lines 53-57: while it runs, the agent may call a tool it was given; the
\* call goes through the server the tool is bound to.  The event records the
\* state of the connection at the time of the call.
CallTool ==
    /\ pc = "Runner_wait"
    /\ toolCalls < MaxToolCalls
    /\ \E i \in 1..Len(agent[1].tools) :
            LET t == agent[1].tools[i]
            IN  log' = Log("call_tool",
                           IF <<t.server>> = server THEN conn ELSE "none")
    /\ toolCalls' = toolCalls + 1
    /\ UNCHANGED <<pc, argv, env, args, prompt, stdout, server, conn, listed,
                   tools, agent, result, inflight, exc, exitStatus>>

\* lines 53-57: Runner.run returns a result, raises, or is cancelled
RunnerDone ==
    /\ pc = "Runner_wait"
    /\ inflight' = inflight \ {"Runner.run"}
    /\ \/ \E o \in Outputs :
            /\ result' = o
            /\ log' = Log("Runner.run", "ok")
            /\ pc' = "print_final"
            /\ UNCHANGED exc
       \/ \E e \in Raised :
            /\ exc' = e
            /\ log' = Log("Runner.run", "raise")
            /\ pc' = OnRaise
            /\ UNCHANGED result
    /\ UNCHANGED <<argv, env, args, prompt, stdout, server, conn, listed,
                   tools, agent, toolCalls, exitStatus>>

\* line 58, then the return of run_agent
PrintFinal ==
    /\ pc = "print_final"
    /\ stdout' = Append(stdout, <<"", Format(result)>>)
    /\ pc' = OnReturn
    /\ UNCHANGED <<argv, env, args, prompt, log, server, conn, listed, tools,
                   agent, result, inflight, toolCalls, exc, exitStatus>>

\* line 66: the scope is left, normally or with exc propagating, and
\* server.__aexit__() is awaited
AexitStart ==
    /\ pc = "aexit"
    /\ inflight' = inflight \cup {"cleanup"}
    /\ log' = Log("cleanup", "call")
    /\ pc' = "aexit_wait"
    /\ UNCHANGED <<argv, env, args, prompt, stdout, server, conn, listed,
                   tools, agent, result, toolCalls, exc, exitStatus>>

\* line 66: the connection is released; a propagating exception goes on
AexitDone ==
    /\ pc = "aexit_wait"
    /\ inflight' = inflight \ {"cleanup"}
    /\ conn' = "closed"
    /\ log' = Log("cleanup", "ok")
    /\ pc' = "exit"
    /\ UNCHANGED <<argv, env, args, prompt, stdout, server, listed, tools,
                   agent, result, toolCalls, exc, exitStatus>>

\* line 85 and the end of the script: asyncio.run returns or raises, or an
\* earlier statement raised, and the interpreter exits
ProcessExit ==
    /\ pc = "exit"
    /\ exitStatus' = ExitStatus(exc)
    /\ pc' = "exited"
    /\ UNCHANGED <<argv, env, args, prompt, stdout, log, server, conn, listed,
                   tools, agent, result, inflight, toolCalls, exc>>

Next ==
    \/ Initialize
    \/ ParseArgs
    \/ ReadPrompt
    \/ PrintConfig
    \/ Main
    \/ ConnectStart
    \/ ConnectDone
    \/ ListToolsStart
    \/ ListToolsDone
    \/ Adapt
    \/ RunAgent
    \/ CallTool
    \/ RunnerDone
    \/ PrintFinal
    \/ AexitStart
    \/ AexitDone
    \/ ProcessExit

Spec == Init /\ [][Next]_vars

\* ------------------------------------------------- reading the call record
Has(op, ph) == \E i \in DOMAIN log : log[i] = Ev(op, ph)
Count(op, ph) == Cardinality({i \in DOMAIN log : log[i] = Ev(op, ph)})
Calls(op) == Cardinality({i \in DOMAIN log : log[i].op = op /\ log[i].ph = "call"})
Left == pc \in {"exit", "exited"}          \* main has returned or raised
UrlEmpty == args # <<>> /\ args[1].mcp_url \in {None, ""}
UrlGiven == args # <<>> /\ args[1].mcp_url \notin {None, ""}

\* C1: a connection that was opened is closed exactly once before main
\* returns, whatever the exit path (tool-list failure, adaptation failure,
\* agent failure, cancellation, success); it is never closed twice and never
\* open once main has been left; nothing is closed that was not opened.
C1_ClosedExactlyOnce ==
    /\ Calls("cleanup") <= 1
    /\ Count("cleanup", "ok") <= Count("connect", "ok")
    /\ Left => conn # "open"
    /\ (Left /\ Has("connect", "ok")) =>
            /\ Count("cleanup", "ok") = 1
            /\ conn = "closed"
    /\ ~Has("connect", "ok") => conn = "none"

C1_Witness ==
    /\ pc = "exited"
    /\ Has("connect", "ok")
    /\ Has("Runner.run", "raise")
    /\ exc = "CancelledError"
    /\ conn = "closed"

\* C2: telemetry initialization is called at most once, it is the first
\* library call of the process, so it precedes every connection open,
\* tool-list request and agent run, and it has been called on every run that
\* ends, also those that fail at argument parsing or prompt reading.
C2_InitializeFirst ==
    /\ Calls("initialize") <= 1
    /\ log # <<>> => log[1] = Ev("initialize", "call")
    /\ \A i \in DOMAIN log :
         log[i].op \in {"connect", "list_tools", "Runner.run", "call_tool",
                        "parse_args", "read"}
            => \E j \in 1..(i - 1) : log[j] = Ev("initialize", "call")
    /\ Left => Calls("initialize") = 1

C2_Witness ==
    /\ pc = "exited"
    /\ Has("connect", "ok")
    /\ Has("list_tools", "ok")
    /\ Has("Runner.run", "ok")
    /\ log[1] = Ev("initialize", "call")

\* C3: with an empty or absent resolved URL no connection is opened and no
\* tool list is requested; the agent is given an empty tool list, and once
\* the prompt was read main calls run_agent exactly once.
C3_EmptyUrlNoTools ==
    UrlEmpty =>
        /\ server = <<>>
        /\ conn = "none"
        /\ Calls("connect") = 0
        /\ Calls("list_tools") = 0
        /\ agent # <<>> => agent[1].tools = <<>>
        /\ Calls("Runner.run") <= 1
        /\ (Left /\ prompt # None) => Calls("Runner.run") = 1

C3_Witness ==
    /\ UrlEmpty
    /\ args[1].mcp_url = ""
    /\ pc = "exited"
    /\ Has("Runner.run", "ok")
    /\ agent[1].tools = <<>>

\* C4: with a non-empty URL and a tool-list answer of N descriptors, the
\* agent is given exactly N tools, the i-th one adapted from the i-th
\* descriptor, bound to the server object whose connection produced the
\* list, in non-strict mode; the list is requested once.
C4_AdaptedTools ==
    (UrlGiven /\ agent # <<>>) =>
        /\ Count("list_tools", "ok") = 1
        /\ Calls("list_tools") = 1
        /\ server # <<>>
        /\ server[1].url = args[1].mcp_url
        /\ Len(agent[1].tools) = Len(listed)
        /\ \A i \in 1..Len(listed) :
             agent[1].tools[i] =
                [tool |-> listed[i], server |-> server[1], strict |-> FALSE]

C4_Witness ==
    /\ UrlGiven
    /\ agent # <<>>
    /\ Len(listed) >= 2
    /\ listed[1] # listed[2]
    /\ Len(agent[1].tools) = Len(listed)
    /\ Has("Runner.run", "ok")

\* C5: when the connection open or the tool-list request fails, no agent is
\* constructed, Runner.run is never called, no final output is printed, and
\* the process ends with a non-zero status.
C5_UnreachableNoAgent ==
    (Has("connect", "raise") \/ Has("list_tools", "raise")) =>
        /\ agent = <<>>
        /\ Calls("Runner.run") = 0
        /\ result = None
        /\ Len(stdout) = 3
        /\ exc \in Raised
        /\ pc = "exited" => exitStatus > 0

C5_Witness ==
    /\ pc = "exited"
    /\ Has("connect", "raise")
    /\ exc = "Exception"
    /\ exitStatus > 0

\* C6: nothing is retried and one failure aborts the run: at most one prompt
\* read, one connection open, one tool-list request, one agent run; after a
\* failed step the only later call is the release of the open connection,
\* and the script is on its way out.
C6_NoRetryAbortOnFailure ==
    /\ Cardinality({i \in DOMAIN log : log[i].op = "read"}) <= 1
    /\ Calls("parse_args") <= 1
    /\ Calls("connect") <= 1
    /\ Calls("list_tools") <= 1
    /\ Calls("Runner.run") <= 1
    /\ \A i \in DOMAIN log :
         log[i].ph = "raise" =>
            \A j \in (i + 1)..Len(log) : log[j].op = "cleanup"
    /\ exc # "none" => pc \in {"aexit", "aexit_wait", "exit", "exited"}
    /\ (exc # "none" /\ pc \in {"aexit", "aexit_wait"}) => conn = "open"
    /\ exc # "none" => inflight \subseteq {"cleanup"}

C6_Witness ==
    /\ pc = "exited"
    /\ Has("list_tools", "raise")
    /\ log[Len(log)] = Ev("cleanup", "ok")
    /\ Calls("connect") = 1
    /\ Calls("Runner.run") = 0

\* the agent's final output is the last line written
FinalPrinted ==
    /\ result # None
    /\ stdout # <<>>
    /\ stdout[Len(stdout)] = <<"", result>>
Completed == exc = "none" /\ FinalPrinted
Fatal == exc \in {"SystemExit2", "Exception", "CancelledError"}

\* C7 as stated: the exit status is 0 exactly when the run completed and the
\* final output was printed, non-zero on any fatal error, and the same (that
\* of an uncaught exception) for every kind of fatal error.
C7_AsStated ==
    pc = "exited" =>
        /\ (exitStatus = 0) <=> Completed
        /\ Fatal => exitStatus # 0
        /\ Fatal => exitStatus = 1

\* C7 amended: the exit status is 0 when the run completed and the final
\* output was printed, and also when the command line asked for help, in
\* which case only the usage was printed and nothing was run; it is non-zero
\* on every fatal error: 2 for a command-line error reported by argparse (a
\* prompt path that cannot be opened), 1 for an uncaught exception (prompt
\* read, connection, tool list, adaptation or agent failure), and non-zero
\* for a cancellation.
C7_ExitStatus ==
    pc = "exited" =>
        /\ Completed => exitStatus = 0
        /\ exitStatus = 0 =>
             \/ Completed
             \/ /\ argv.help
                /\ exc = "SystemExit0"
                /\ Len(stdout) = 1
                /\ agent = <<>>
                /\ Calls("connect") = 0
        /\ Fatal => exitStatus # 0
        /\ exc = "SystemExit2" => (exitStatus = 2 /\ argv.prompt = "missing")
        /\ exc = "Exception" => exitStatus = 1

C7_Witness ==
    /\ pc = "exited"
    /\ exitStatus = 0
    /\ argv.help
    /\ ~FinalPrinted

C9_Resolved ==
    (args # <<>>) =>
        /\ argv.model # NotGiven => args[1].model = argv.model
        /\ argv.model = NotGiven => args[1].model = env.CHAT_MODEL
        /\ argv.mcp_url # NotGiven => args[1].mcp_url = argv.mcp_url
        /\ argv.mcp_url = NotGiven => args[1].mcp_url = env.MCP_URL
        /\ argv.mcp_url = "" => (server = <<>> /\ Calls("connect") = 0)
        /\ (argv.mcp_url = "" /\ agent # <<>>) => agent[1].tools = <<>>
        /\ agent # <<>> => (agent[1].model = args[1].model /\ agent[1].input = prompt)
        /\ server # <<>> => server[1].url = args[1].mcp_url

C9_FlagOverEnvironment ==
    /\ []C9_Resolved
    /\ [][args # <<>> => args' = args]_vars
    /\ [][prompt # None => prompt' = prompt]_vars
    /\ [][argv' = argv /\ env' = env]_vars

C9_Witness ==
    /\ argv.mcp_url = ""
    /\ env.MCP_URL = "http://env/mcp"
    /\ argv.model = "flag-model"
    /\ env.CHAT_MODEL = "env-model"
    /\ Has("Runner.run", "ok")
    /\ agent[1].model = "flag-model"

\* the position of an event in the sequence of a run: open, list, run, close
Rank(e) ==
    CASE e.op = "initialize" -> 0
      [] e.op = "parse_args" -> 1
      [] e.op = "read" -> 2
      [] e.op = "connect" -> 3
      [] e.op = "list_tools" -> 4
      [] e.op = "to_function_tool" -> 5
      [] e.op = "Runner.run" /\ e.ph = "call" -> 6
      [] e.op = "call_tool" -> 7
      [] e.op = "Runner.run" /\ e.ph # "call" -> 8
      [] e.op = "cleanup" -> 9

\* C10: the steps are sequential: at most one awaited operation is in
\* flight; the prompt is read before any of them starts; the events occur in
\* the order open, list, run, close, each call being followed at once by its
\* own completion (only tool calls come between the start and the end of the
\* agent run); with a server, the agent run and every tool call happen
\* while the connection is open.
C10_Sequential ==
    /\ Cardinality(inflight) <= 1
    /\ \A i \in DOMAIN log :
         log[i].op \in {"connect", "list_tools", "Runner.run", "cleanup"} =>
            \E j \in 1..(i - 1) : log[j] = Ev("read", "ok")
    /\ \A i, j \in DOMAIN log : i < j => Rank(log[i]) <= Rank(log[j])
    /\ \A i \in DOMAIN log :
         (log[i].ph = "call" /\ i < Len(log) /\ log[i].op \in {"connect", "list_tools", "cleanup"})
            => (log[i + 1].op = log[i].op /\ log[i + 1].ph # "call")
    /\ Has("list_tools", "call") => Has("connect", "ok")
    /\ (Has("Runner.run", "call") /\ server # <<>>) => Has("list_tools", "ok")
    /\ Has("cleanup", "call") => Has("connect", "ok")
    /\ ("Runner.run" \in inflight /\ server # <<>>) => conn = "open"
    /\ "list_tools" \in inflight => conn = "open"
    /\ "connect" \in inflight => conn = "none"
    /\ \A i \in DOMAIN log : log[i].op = "call_tool" => log[i].ph = "open"
    /\ conn = "closed" => inflight = {}

C10_Witness ==
    /\ pc = "exited"
    /\ Has("call_tool", "open")
    /\ Has("Runner.run", "ok")
    /\ log[Len(log)] = Ev("cleanup", "ok")
====
